---- MODULE Spec2Model ----
(***************************************************************************)
(* Model of homeassistant/components/sensor/dht.py: the throttled          *)
(* DHTClient that caches the last reading of the chip, and the DHTSensor   *)
(* entities (temperature, humidity) that push the cached reading into a    *)
(* rolling window and expose the window's median as their state.           *)
(*                                                                         *)
(* Numbers are fixed point.  A driver value is an integer number of        *)
(* hundredths (2014 is 20.14); round(x, 1) yields an integer number of     *)
(* tenths (201 is 20.1), and every window entry and every state is in      *)
(* tenths.  An optional value is a sequence of length 0 (None, or a key    *)
(* missing from the dict) or 1.                                            *)
(*                                                                         *)
(* Line 139 of dht.py is indented one level deeper than line 138 (Python   *)
(* rejects the file with "unexpected indent").  The model follows the      *)
(* block structure the indentation shows: the range test of lines 139-144  *)
(* runs after line 138 inside the temperature branch.                      *)
(***************************************************************************)
EXTENDS Integers, Sequences, FiniteSets, TLC

\* ---------------------------------------------------------------- bounds
\* The largest configured median count.
MaxMedian == 3

\* ------------------------------------------------------------- constants
SENSOR_TEMPERATURE == "temperature"
SENSOR_HUMIDITY == "humidity"
SENSOR_TYPES == {SENSOR_TEMPERATURE, SENSOR_HUMIDITY}
TEMP_FAHRENHEIT == "F"
TEMP_CELSIUS == "C"
MIN_TIME_BETWEEN_UPDATES == 30

None == << >>
Some(x) == << x >>
Val(o) == o[1]

\* ---------------------------------------------------- inputs of the model
\* One call of read_retry: it raises IOError or returns (humidity,
\* temperature), in hundredths.  The values are nothing, zero, and values on
\* either side of each bound of the plausibility filters.
IOError == [err |-> TRUE, humidity |-> None, temperature |-> None]
Pair(h, t) == [err |-> FALSE, humidity |-> h, temperature |-> t]
DriverOutcomes ==
    { IOError,
      Pair(None, None),
      Pair(None, Some(2014)),
      Pair(Some(0), Some(-2004)),
      Pair(Some(10004), Some(0)),
      Pair(Some(10004), Some(2014)),
      Pair(Some(10004), Some(7990)),
      Pair(Some(10006), Some(7996)),
      Pair(Some(-10), Some(-2010)) }
\* Seconds that can pass between two steps.
Delays == {15, 30}
\* config[CONF_MONITORED_CONDITIONS]
ConditionLists ==
    { <<SENSOR_TEMPERATURE>>, <<SENSOR_HUMIDITY>>,
      <<SENSOR_TEMPERATURE, SENSOR_HUMIDITY>> }

VARIABLES
    median_count,   \* config[CONF_MEDIAN]
    temp_unit,      \* hass.config.units.temperature_unit
    conditions,     \* config[CONF_MONITORED_CONDITIONS]
    idx,            \* position of setup_platform's loop in conditions
    dev,            \* the sensors constructed so far
    added,          \* add_devices(dev) has run
    data,           \* DHTSensor.data, per sensor
    state,          \* DHTSensor._state, per sensor
    client_data,    \* DHTClient.data
    last_call,      \* seconds since the last completed hardware access
    result,         \* how the latest update() call ended
    accessed,       \* the latest update() call reached read_retry
    driven,         \* per element, the last truthy value read_retry returned
    accepted        \* per sensor, the last median_count accepted samples

vars == << median_count, temp_unit, conditions, idx, dev, added, data, state,
           client_data, last_call, result, accessed, driven, accepted >>

\* ---------------------------------------------------------------- helpers
\* Python truthiness of one element of the pair read_retry returns.
Truthy(v) == v # None /\ v # Some(0)

\* round(x, 1) of x hundredths, in tenths (ties to even).
Round1(h) ==
    LET q == h \div 10
        r == h % 10
    IN  IF r < 5 THEN q
        ELSE IF r > 5 THEN q + 1
        ELSE IF q % 2 = 0 THEN q ELSE q + 1

\* celsius_to_fahrenheit of c tenths of a degree, in hundredths.
celsius_to_fahrenheit(c) == 18 * c + 3200

RECURSIVE Insert(_, _)
Insert(x, s) ==
    IF s = << >> THEN << x >>
    ELSE IF x <= Head(s) THEN << x >> \o s
    ELSE << Head(s) >> \o Insert(x, Tail(s))

RECURSIVE sorted(_)
sorted(s) == IF s = << >> THEN << >> ELSE Insert(Head(s), sorted(Tail(s)))

\* sorted(self.data)[int((self.median_count - 1) / 2)]
Median(s, n) == sorted(s)[((n - 1) \div 2) + 1]

\* The unit setup_platform hands to the sensor of a kind.
UnitOf(type, unit) == IF type = SENSOR_TEMPERATURE THEN unit ELSE "%"

\* Throttle: the call is skipped when less than the minimum interval has
\* passed since the last completed call.
Throttled(last) == last # None /\ Val(last) < MIN_TIME_BETWEEN_UPDATES

\* ClientUpdate testing "is not None" in place of truthiness.
ClientUpdate_NotNone(cache, out) ==
    [ temperature |-> IF out.temperature # None THEN out.temperature
                                                ELSE cache.temperature,
      humidity    |-> IF out.humidity # None THEN out.humidity
                                             ELSE cache.humidity ]

\* The body of DHTClient.update on what read_retry returned.
ClientUpdate(cache, out) ==
    [ temperature |-> IF Truthy(out.temperature) THEN out.temperature
                                                 ELSE cache.temperature,
      humidity    |-> IF Truthy(out.humidity) THEN out.humidity
                                              ELSE cache.humidity ]

\* ThrottledUpdate with the Throttle decorator left off.
ThrottledUpdate_Undecorated(cache, last, out) ==
    IF out.err
    THEN [ kind |-> "ioerror", data |-> cache, last |-> last ]
    ELSE [ kind |-> "read", data |-> ClientUpdate(cache, out), last |-> Some(0) ]

\* ThrottledUpdate handing the sensor an empty dict when the call is skipped.
ThrottledUpdate_Empty(cache, last, out) ==
    IF Throttled(last)
    THEN [ kind |-> "throttled",
           data |-> [ temperature |-> None, humidity |-> None ], last |-> last ]
    ELSE IF out.err
    THEN [ kind |-> "ioerror", data |-> cache, last |-> last ]
    ELSE [ kind |-> "read", data |-> ClientUpdate(cache, out), last |-> Some(0) ]

\* self.dht_client.update() as the sensor sees it.
ThrottledUpdate(cache, last, out) ==
    IF Throttled(last)
    THEN [ kind |-> "throttled", data |-> cache, last |-> last ]
    ELSE IF out.err
    THEN [ kind |-> "ioerror", data |-> cache, last |-> last ]
    ELSE [ kind |-> "read", data |-> ClientUpdate(cache, out), last |-> Some(0) ]

\* TemperatureOk with the upper bound included.
TemperatureOk_Inclusive(t) == t >= -200 /\ t <= 800

\* The plausibility filters of lines 139 and 147, on tenths.
TemperatureOk(t) == t >= -200 /\ t < 800
HumidityOk(h) == h >= 0 /\ h <= 1000

\* Lines 137-149: self.data after the append step.
Appended(type, unit, win, reading) ==
    IF type = SENSOR_TEMPERATURE
    THEN LET temperature == Round1(Val(reading.temperature))
         IN  IF TemperatureOk(temperature)
             THEN IF unit = TEMP_FAHRENHEIT
                  THEN win \o << temperature,
                                 Round1(celsius_to_fahrenheit(temperature)) >>
                  ELSE Append(win, temperature)
             ELSE win
    ELSE LET humidity == Round1(Val(reading.humidity))
         IN  IF HumidityOk(humidity) THEN Append(win, humidity) ELSE win

\* Lines 162-163.
Capped(win, n) == IF Len(win) > n THEN Tail(win) ELSE win

\* NewState setting the state to the latest entry of a window that is not full.
NewState_Latest(win, st, n) ==
    IF Len(win) = n THEN Some(Median(win, n))
    ELSE IF win # << >> THEN Some(win[Len(win)]) ELSE st

\* NewState taking the median of a window that is not yet full.
NewState_Partial(win, st, n) ==
    IF Len(win) = n THEN Some(Median(win, n))
    ELSE IF win # << >> /\ Len(win) < n THEN Some(Median(win, Len(win))) ELSE st

\* NewState resetting the state when the window is not full.
NewState_Reset(win, st, n) == IF Len(win) = n THEN Some(Median(win, n)) ELSE None

\* Lines 165-170.
NewState(win, st, n) == IF Len(win) = n THEN Some(Median(win, n)) ELSE st

\* SensorUpdate without the return of line 133: an IOError leaves data = None
\* and falls into the branch of lines 150-159.
SensorUpdate_NoReturn(type, unit, n, win, st, raised, isNone, reading) ==
    IF raised \/ isNone
    THEN [ data |-> IF Len(win) > 0 THEN Tail(win) ELSE win,
           state |-> IF Len(win) > 0 THEN st ELSE None,
           result |-> "returned", branch |-> "decay" ]
    ELSE IF reading[type] = None
    THEN [ data |-> win, state |-> st, result |-> "KeyError",
           branch |-> "keyerror" ]
    ELSE LET app == Appended(type, unit, win, reading)
             cap == Capped(app, n)
         IN  [ data |-> cap, state |-> NewState(cap, st, n),
               result |-> "returned", branch |-> "median" ]

\* DHTSensor.update.  raised: the poll raised IOError; isNone: the value read
\* from the client is None; reading: the client's dict.
SensorUpdate(type, unit, n, win, st, raised, isNone, reading) ==
    IF raised
    THEN [ data |-> win, state |-> st, result |-> "returned",
           branch |-> "ioerror" ]
    ELSE IF isNone
    THEN [ data |-> IF Len(win) > 0 THEN Tail(win) ELSE win,
           state |-> IF Len(win) > 0 THEN st ELSE None,
           result |-> "returned", branch |-> "decay" ]
    ELSE IF reading[type] = None
    THEN [ data |-> win, state |-> st, result |-> "KeyError",
           branch |-> "keyerror" ]
    ELSE LET app == Appended(type, unit, win, reading)
             cap == Capped(app, n)
         IN  [ data |-> cap, state |-> NewState(cap, st, n),
               result |-> "returned", branch |-> "median" ]

\* ------------------------------------------------------ history variables
\* The sample a reading holds for a kind, in the unit the sensor displays.
Displayed(type, unit, reading) ==
    IF type = SENSOR_TEMPERATURE /\ unit = TEMP_FAHRENHEIT
    THEN Round1(celsius_to_fahrenheit(Round1(Val(reading[type]))))
    ELSE Round1(Val(reading[type]))

\* The reading holds a sample of the kind that is in the plausible range:
\* [-20, 80) for a temperature, [0, 100] for a humidity.
InRange(type, reading) ==
    /\ reading[type] # None
    /\ LET x == Round1(Val(reading[type]))
       IN  IF type = SENSOR_TEMPERATURE
           THEN -200 <= x /\ x < 800
           ELSE 0 <= x /\ x <= 1000

LastN(s, n) == IF Len(s) > n THEN SubSeq(s, Len(s) - n + 1, Len(s)) ELSE s

NextDriven(p, out) ==
    IF p.kind = "read"
    THEN [ f \in SENSOR_TYPES |-> IF Truthy(out[f]) THEN out[f] ELSE driven[f] ]
    ELSE driven

NextAccepted(type, p, u) ==
    IF u.branch = "median" /\ InRange(type, p.data)
    THEN LastN(Append(accepted[type], Displayed(type, temp_unit, p.data)),
               median_count)
    ELSE accepted[type]

\* ------------------------------------------------------------------ Init
Init ==
    /\ median_count \in 1..MaxMedian
    /\ temp_unit \in {TEMP_CELSIUS, TEMP_FAHRENHEIT}
    /\ conditions \in ConditionLists
    /\ idx = 1
    /\ dev = << >>
    /\ added = FALSE
    /\ data = [ s \in SENSOR_TYPES |-> << >> ]
    /\ state = [ s \in SENSOR_TYPES |-> None ]
    /\ client_data = [ temperature |-> None, humidity |-> None ]
    /\ last_call = None
    /\ result = "none"
    /\ accessed = FALSE
    /\ driven = [ f \in SENSOR_TYPES |-> None ]
    /\ accepted = [ s \in SENSOR_TYPES |-> << >> ]

\* What read_retry can do in the next call of update(): it is not called when
\* the poll is throttled, and one outcome then stands for all.
Inputs == IF Throttled(last_call) THEN { Pair(None, None) } ELSE DriverOutcomes

\* One update() of the sensor of a kind, on a window and a state, when
\* read_retry would do out.
Cycle(type, win, st, out) ==
    LET p == ThrottledUpdate(client_data, last_call, out)
        u == SensorUpdate(type, UnitOf(type, temp_unit), median_count, win, st,
                          p.kind = "ioerror", FALSE, p.data)
    IN  /\ client_data' = p.data
        /\ last_call' = p.last
        /\ data' = [ data EXCEPT ![type] = u.data ]
        /\ state' = [ state EXCEPT ![type] = u.state ]
        /\ result' = u.result
        /\ accessed' = (p.kind # "throttled")
        /\ driven' = NextDriven(p, out)
        /\ accepted' = [ accepted EXCEPT ![type] = NextAccepted(type, p, u) ]

\* setup_platform, one turn of the loop of lines 78-80: DHTSensor.__init__
\* and the update() it ends with.  A KeyError ends the loop (lines 81-82).
ConstructWith(out) ==
    /\ ~added
    /\ idx <= Len(conditions)
    /\ Cycle(conditions[idx], << >>, None, out)
    /\ IF result' = "KeyError"
       THEN idx' = Len(conditions) + 1 /\ dev' = dev
       ELSE idx' = idx + 1 /\ dev' = Append(dev, conditions[idx])
    /\ UNCHANGED << median_count, temp_unit, conditions, added >>

Construct == \E out \in Inputs : ConstructWith(out)

\* setup_platform, line 84.
AddDevices ==
    /\ ~added
    /\ idx > Len(conditions)
    /\ added' = TRUE
    /\ UNCHANGED << median_count, temp_unit, conditions, idx, dev, data, state,
                    client_data, last_call, result, accessed, driven, accepted >>

\* A window that has outgrown median_count grows with every further sample;
\* the sensor is followed until its window has outgrown median_count.
Followed(type) == Len(data[type]) <= median_count

\* The scheduler calls update() on a sensor it was given.
UpdateOf(type, out) ==
    /\ added
    /\ \E i \in 1..Len(dev) : dev[i] = type
    /\ Followed(type)
    /\ Cycle(type, data[type], state[type], out)
    /\ UNCHANGED << median_count, temp_unit, conditions, idx, dev, added >>

Update == \E type \in SENSOR_TYPES, out \in Inputs : UpdateOf(type, out)

\* Time passes.
Tick ==
    /\ last_call # None
    /\ Val(last_call) < MIN_TIME_BETWEEN_UPDATES
    /\ \E d \in Delays :
          last_call' = Some(IF Val(last_call) + d > MIN_TIME_BETWEEN_UPDATES
                            THEN MIN_TIME_BETWEEN_UPDATES
                            ELSE Val(last_call) + d)
    /\ UNCHANGED << median_count, temp_unit, conditions, idx, dev, added, data,
                    state, client_data, result, accessed, driven, accepted >>

Next == Construct \/ AddDevices \/ Update \/ Tick

Spec == Init /\ [][Next]_vars

\* ----------------------------------------------------------------- claims
\* An update() of the sensor of a kind, run by the scheduler or by the
\* constructor, when read_retry would do out.
CycleOf(type, out) ==
    \/ UpdateOf(type, out)
    \/ (~added /\ idx <= Len(conditions) /\ conditions[idx] = type
           /\ ConstructWith(out))

\* What the poll of the cycle does: "throttled", "ioerror" or "read".
PollKind(out) == ThrottledUpdate(client_data, last_call, out).kind

\* The hardware was polled and gave no usable value for the kind.
NoData(type, out) ==
    \/ PollKind(out) = "ioerror"
    \/ PollKind(out) = "read" /\ ~Truthy(out[type])

\* The element of an odd-length sequence that has as many entries below it
\* as above it, counted by position.
LowerMedian(s) ==
    LET k == (Len(s) - 1) \div 2
    IN  CHOOSE x \in { s[i] : i \in 1..Len(s) } :
            /\ Cardinality({ i \in 1..Len(s) : s[i] < x }) <= k
            /\ Cardinality({ i \in 1..Len(s) : s[i] <= x }) > k

Live(type) == added /\ \E i \in 1..Len(dev) : dev[i] = type

\* C1: for odd N, once N in-range samples have been appended, the displayed
\* value is the lower median of the last N accepted samples.
C1_MedianOfLastN ==
    \A s \in SENSOR_TYPES :
        (median_count % 2 = 1 /\ Len(accepted[s]) = median_count)
            => state[s] = Some(LowerMedian(accepted[s]))

\* C2: the window of a sensor never holds more than N entries.
C2_WindowBounded ==
    \A s \in SENSOR_TYPES : Len(data[s]) <= median_count

\* C3: a cycle whose poll yields an in-range value appends exactly one value:
\* the window is the previous window plus one entry, less the oldest entry
\* when that makes it longer than N.
C3_OneAppendPerSample ==
    [][ \A type \in SENSOR_TYPES, out \in DriverOutcomes :
          (CycleOf(type, out) /\ PollKind(out) # "ioerror"
                /\ InRange(type, client_data'))
             => LET w == data'[type]
                    one == Append(data[type], w[Len(w)])
                IN  /\ Len(w) >= 1
                    /\ w = (IF Len(one) > median_count THEN Tail(one) ELSE one)
      ]_vars

\* C4: update() never raises, whatever read_retry does and whatever the
\* state, the first cycle run from the constructor included.
C4_UpdateNeverRaises == result # "KeyError"

\* C5: a cycle whose poll raises IOError is a no-data cycle: the window loses
\* its oldest entry if it has one, else the displayed value becomes unknown;
\* nothing is appended.
C5_IOErrorDecays ==
    [][ \A type \in SENSOR_TYPES, out \in DriverOutcomes :
          (CycleOf(type, out) /\ PollKind(out) = "ioerror")
             => IF data[type] # << >>
                THEN data'[type] = Tail(data[type])
                ELSE data'[type] = << >> /\ state'[type] = None
      ]_vars

\* C6: a poll made less than the minimum interval after a completed hardware
\* access, by whichever sensor, does not call read_retry and leaves the
\* cached reading as it was.
C6_ThrottledPollKeepsCache ==
    [][ (last_call # None /\ Val(last_call) < MIN_TIME_BETWEEN_UPDATES)
           => \/ ~accessed' /\ client_data' = client_data /\ driven' = driven
              \/ \A type \in SENSOR_TYPES, out \in DriverOutcomes :
                    ~CycleOf(type, out)
      ]_vars

\* C6 witness: both sensors are live, the latest update() was throttled and
\* the cache holds the reading of the one access made so far.
C6_Witness ==
    /\ Live(SENSOR_TEMPERATURE) /\ Live(SENSOR_HUMIDITY)
    /\ ~accessed /\ result = "returned"
    /\ last_call # None /\ Val(last_call) < MIN_TIME_BETWEEN_UPDATES
    /\ data[SENSOR_TEMPERATURE] # << >> /\ data[SENSOR_HUMIDITY] # << >>

\* C7: in a cycle whose poll gives no value for the sensor's kind, update()
\* returns having removed the oldest entry of a non-empty window and left
\* the displayed value alone, or having set the displayed value of a sensor
\* with an empty window to unknown; nothing is appended.
C7_NoDataCycleDecays ==
    [][ \A type \in SENSOR_TYPES, out \in DriverOutcomes :
          (CycleOf(type, out) /\ PollKind(out) = "read" /\ ~Truthy(out[type]))
             => /\ result' = "returned"
                /\ IF data[type] # << >>
                   THEN data'[type] = Tail(data[type])
                        /\ state'[type] = state[type]
                   ELSE data'[type] = << >> /\ state'[type] = None
      ]_vars

\* C8: a no-data cycle that begins with a full window and a known displayed
\* value (the first cycle of a run of no-data cycles) removes the oldest
\* entry of the window and keeps the displayed value.
C8_DecayFromFullWindow ==
    [][ \A type \in SENSOR_TYPES, out \in DriverOutcomes :
          (UpdateOf(type, out) /\ NoData(type, out)
                /\ Len(data[type]) = median_count /\ state[type] # None)
             => (data'[type] = Tail(data[type]) /\ state'[type] = state[type])
      ]_vars

\* C9: a sample outside [-20, 80) for a temperature (the Celsius value, also
\* when the unit is Fahrenheit) or outside [0, 100] for a humidity appends
\* nothing to the window, and update() returns.
C9_OutOfRangeNotAppended ==
    [][ \A type \in SENSOR_TYPES :
          (client_data'[type] # None /\ ~InRange(type, client_data'))
             => \/ /\ result' = "returned"
                   /\ \/ data'[type] = data[type]
                      \/ Len(data[type]) > median_count
                           /\ data'[type] = Tail(data[type])
                \/ \A out \in DriverOutcomes :
                      PollKind(out) = "ioerror" \/ ~CycleOf(type, out)
      ]_vars

\* C9 witness: the only sensor is the temperature sensor, its latest update()
\* read 79.96 from the hardware, and its window holds earlier samples only.
C9_Witness ==
    /\ conditions = << SENSOR_TEMPERATURE >> /\ Live(SENSOR_TEMPERATURE)
    /\ accessed /\ result = "returned"
    /\ last_call = Some(0)
    /\ client_data[SENSOR_TEMPERATURE] = Some(7996)
    /\ data[SENSOR_TEMPERATURE] # << >>
    /\ \A i \in 1..Len(data[SENSOR_TEMPERATURE]) :
           data[SENSOR_TEMPERATURE][i] \notin {800, 1760}

\* C10: each field of the cached reading is the last truthy value read_retry
\* returned for it, or is absent if there was none.
C10_CacheIsLastTruthy ==
    \A f \in SENSOR_TYPES : client_data[f] = driven[f]

\* C10 witness: the cache holds the humidity of a later poll whose
\* temperature was zero, next to the temperature of an earlier poll.
C10_Witness ==
    /\ client_data[SENSOR_TEMPERATURE] = Some(7996)
    /\ client_data[SENSOR_HUMIDITY] = Some(10004)

\* C11: a step that leaves a window with fewer than N entries leaves the
\* displayed value of its sensor as it was: it is neither reset to unknown
\* nor set from the partial window.
C11_PartialWindowKeepsState ==
    [][ \A type \in SENSOR_TYPES :
          Len(data'[type]) < median_count => state'[type] = state[type]
      ]_vars

\* C11 witness: a temperature sensor with N = 3 has appended two samples and
\* still displays unknown.
C11_Witness ==
    /\ median_count = 3 /\ temp_unit = TEMP_CELSIUS
    /\ Live(SENSOR_TEMPERATURE) /\ result = "returned"
    /\ Len(data[SENSOR_TEMPERATURE]) = 2
    /\ state[SENSOR_TEMPERATURE] = None

\* Every accepted sample the history holds for the kind is the one the
\* reading holds now.
Steady(type, reading) ==
    /\ InRange(type, reading)
    /\ \A i \in 1..Len(accepted[type]) :
          accepted[type][i] = Displayed(type, temp_unit, reading)

\* C12: once the window has been full, a step in which the reading is the
\* in-range reading of all earlier cycles leaves the displayed value as it
\* is, for both units.
C12_SameReadingSameState ==
    [][ \A type \in SENSOR_TYPES :
          (state[type] # None /\ Steady(type, client_data'))
             => state'[type] = state[type]
      ]_vars

\* C12 witness: the only sensor, a Celsius temperature sensor with N = 1,
\* has run a throttled update() on the reading that filled its window.
C12_Witness ==
    /\ median_count = 1 /\ temp_unit = TEMP_CELSIUS
    /\ conditions = << SENSOR_TEMPERATURE >> /\ Live(SENSOR_TEMPERATURE)
    /\ ~accessed /\ result = "returned"
    /\ client_data[SENSOR_TEMPERATURE] = Some(2014)
    /\ data[SENSOR_TEMPERATURE] = << 201 >>
    /\ state[SENSOR_TEMPERATURE] = Some(201)

\* C13: the displayed value is unknown at the start and goes from unknown to
\* a number only in a step that ends with exactly N entries in the window, so
\* it is unknown as long as the window has never held N entries.
C13_KnownOnlyWhenFull ==
    /\ \A type \in SENSOR_TYPES : state[type] = None
    /\ [][ \A type \in SENSOR_TYPES :
             (state[type] = None /\ state'[type] # None)
                => Len(data'[type]) = median_count
         ]_vars

\* C13 witness: a sensor with N = 3 displays a value and its window holds
\* three entries.
C13_Witness ==
    /\ median_count = 3
    /\ Live(SENSOR_TEMPERATURE)
    /\ Len(data[SENSOR_TEMPERATURE]) = 3
    /\ state[SENSOR_TEMPERATURE] # None

\* C14: the window holds, in insertion order, exactly the most recent
\* min(N, count) accepted samples of its quantity.
C14_WindowIsLastAccepted ==
    \A type \in SENSOR_TYPES : data[type] = accepted[type]

\* The Fahrenheit conversions of the Celsius samples the filter accepts.
FahrenheitSamples ==
    { Round1(celsius_to_fahrenheit(Round1(Val(o.temperature)))) :
        o \in { d \in DriverOutcomes : InRange(SENSOR_TEMPERATURE, d) } }

\* C15: with the Fahrenheit unit every entry of the temperature window and
\* the displayed temperature are Fahrenheit conversions of accepted Celsius
\* samples.
C15_FahrenheitOnly ==
    temp_unit = TEMP_FAHRENHEIT =>
        /\ \A i \in 1..Len(data[SENSOR_TEMPERATURE]) :
               data[SENSOR_TEMPERATURE][i] \in FahrenheitSamples
        /\ state[SENSOR_TEMPERATURE] # None
               => Val(state[SENSOR_TEMPERATURE]) \in FahrenheitSamples

\* C16: with N = 1 every cycle that accepts an in-range sample ends with
\* that sample, in the display unit, as the displayed value.
C16_NoFilteringWithOne ==
    [][ median_count = 1 =>
          \A type \in SENSOR_TYPES :
             InRange(type, client_data')
                => \/ state'[type] = Some(Displayed(type, temp_unit, client_data'))
                   \/ \A out \in DriverOutcomes :
                         PollKind(out) = "ioerror" \/ ~CycleOf(type, out)
      ]_vars

\* C17: once the last N samples a sensor accepted are all the same value x,
\* the displayed value is x in the display unit.
C17_SettlesWithinN ==
    \A type \in SENSOR_TYPES :
        (/\ Len(accepted[type]) = median_count
         /\ \A i \in 1..Len(accepted[type]) : accepted[type][i] = accepted[type][1])
            => state[type] = Some(accepted[type][1])

\* The window w is the window pre with entries appended, less at most the
\* oldest entry of pre, and ends with x.
AppendedTo(pre, w, x) ==
    /\ Len(w) >= 1
    /\ w[Len(w)] = x
    /\ \/ Len(w) > Len(pre) /\ SubSeq(w, 1, Len(pre)) = pre
       \/ /\ pre # << >>
          /\ Len(w) >= Len(pre)
          /\ SubSeq(w, 1, Len(pre) - 1) = Tail(pre)

\* C18: an update() whose poll is throttled appends the cached in-range
\* value of its kind to the window all the same, and sets the displayed
\* value from the window when that makes N entries.
C18_ThrottledCycleAppends ==
    [][ (last_call # None /\ Val(last_call) < MIN_TIME_BETWEEN_UPDATES)
           => \A type \in SENSOR_TYPES :
                 InRange(type, client_data)
                    => \/ /\ AppendedTo(data[type], data'[type],
                                        Displayed(type, temp_unit, client_data))
                          /\ Len(data'[type]) = median_count
                                => state'[type] = Some(LowerMedian(data'[type]))
                       \/ \A out \in DriverOutcomes : ~CycleOf(type, out)
      ]_vars

\* C18 witness: the only sensor, a Celsius temperature sensor with N = 3,
\* holds three copies of the cached reading and displays it; no time has
\* passed since the hardware access and the latest update() was throttled.
C18_Witness ==
    /\ median_count = 3 /\ temp_unit = TEMP_CELSIUS
    /\ conditions = << SENSOR_TEMPERATURE >> /\ Live(SENSOR_TEMPERATURE)
    /\ ~accessed /\ last_call = Some(0)
    /\ client_data[SENSOR_TEMPERATURE] = Some(2014)
    /\ data[SENSOR_TEMPERATURE] = << 201, 201, 201 >>
    /\ state[SENSOR_TEMPERATURE] = Some(201)

====
